---- MODULE Spec2Model ----
(***************************************************************************)
(* Model of the video upload handler of bingein_ott (api/upload-video.js,  *)
(* the formidable + node-appwrite revision kept as src/unnamed/part_001).  *)
(*                                                                         *)
(* Several requests are served concurrently by the same Node process: an   *)
(* invocation of handler() runs atomically between two of its awaits, and  *)
(* the invocations share the staging directory ./tmp, the blob store and   *)
(* the document store.  The file system is modelled by its state: readFile *)
(* and unlink fail exactly when the path is absent (ENOENT).               *)
(***************************************************************************)
EXTENDS Integers, Sequences, FiniteSets, TLC

\* ------------------------------------------------------------------ bounds
\* Number of requests the process serves, any of them concurrently.
NumInvocations == 2

Invocations == 1..NumInvocations

\* ------------------------------------------------------------ JS values
\* A form field: present or not, with its text.
Field(t) == [has |-> TRUE, val |-> t]
NoField == [has |-> FALSE, val |-> ""]
\* The duration field keeps its characters, so that parseInt can scan them.
Chars(s) == [has |-> TRUE, val |-> s]
NoChars == [has |-> FALSE, val |-> <<>>]
\* A file part with the filename the client declared ("" when it declared
\* none) and the size of its payload; EmptyFilePart is one of zero bytes.
FilePart(n) == [has |-> TRUE, originalFilename |-> n, size |-> 1]
EmptyFilePart(n) == [has |-> TRUE, originalFilename |-> n, size |-> 0]
NoFilePart == [has |-> FALSE, originalFilename |-> "", size |-> 0]

Digits == {"0", "1", "2", "3", "4", "5", "6", "7", "8", "9"}

DigitVal(c) ==
    CASE c = "0" -> 0 [] c = "1" -> 1 [] c = "2" -> 2 [] c = "3" -> 3
      [] c = "4" -> 4 [] c = "5" -> 5 [] c = "6" -> 6 [] c = "7" -> 7
      [] c = "8" -> 8 [] c = "9" -> 9

NaN == [nan |-> TRUE, num |-> 0]
Num(n) == [nan |-> FALSE, num |-> n]

RECURSIVE SkipSpaces(_)
SkipSpaces(s) ==
    IF s # <<>> /\ Head(s) = " " THEN SkipSpaces(Tail(s)) ELSE s

RECURSIVE DigitPrefix(_, _)
\* Value of the longest run of digits at the head of s, acc being the value so far.
DigitPrefix(s, acc) ==
    IF s # <<>> /\ Head(s) \in Digits
    THEN DigitPrefix(Tail(s), 10 * acc + DigitVal(Head(s)))
    ELSE acc

\* parseInt(x, 10): leading white space is skipped, one sign is accepted, the
\* longest run of digits is read and whatever follows is ignored; NaN when
\* there is no digit to read (this covers undefined, which reads as the text
\* "undefined").
parseInt(f) ==
    IF ~f.has THEN NaN
    ELSE LET s == SkipSpaces(f.val)
             neg == s # <<>> /\ Head(s) = "-"
             body == IF s # <<>> /\ Head(s) \in {"-", "+"} THEN Tail(s) ELSE s
         IN  IF body = <<>> \/ Head(body) \notin Digits
             THEN NaN
             ELSE Num(IF neg THEN 0 - DigitPrefix(body, 0) ELSE DigitPrefix(body, 0))

isNaN(n) == n.nan

\* !x for a text field that may be undefined: undefined and "" are falsy.
Falsy(f) == ~f.has \/ f.val = ""

\* ------------------------------------------------------------- requests
\* The request of spec.md section 8: every field present and valid.
Base(vn, tn) ==
    [method |-> "POST",
     title |-> Field("Trailer"),
     description |-> Field("A short trailer"),
     duration |-> Chars(<<"1", "2", "0">>),
     isPremium |-> Field("true"),
     genre |-> Field("Action"),
     tags |-> Field("trailer,action"),
     teamId |-> Field("team_1"),
     videoFile |-> FilePart(vn),
     thumbnailFile |-> FilePart(tn)]

Std == Base("a.mp4", "b.jpg")

TextSamples == {NoField, Field(""), Field(" ")}

DurationSamples ==
    {NoChars, Chars(<<>>), Chars(<<"a", "b", "c">>), Chars(<<"0">>),
     Chars(<<"-", "5">>), Chars(<<"1", "2", "a">>), Chars(<<" ", "7">>),
     Chars(<<"-">>)}

PremiumSamples == {NoField, Field("TRUE"), Field("1"), Field("false"), Field("")}

\* The requests the clients send: the standard one and its variations in one
\* field, the two files named alike or not named, and a request of another
\* method.
Requests ==
    {Std, Base("a.mp4", "a.mp4"), Base("", "b.jpg"), Base("c.mp4", "d.jpg"),
     [Std EXCEPT !.method = "GET"],
     [Std EXCEPT !.genre = NoField, !.tags = NoField],
     [Std EXCEPT !.teamId = NoField],
     [Std EXCEPT !.teamId = Field("team_2")],
     [Std EXCEPT !.videoFile = NoFilePart],
     [Std EXCEPT !.videoFile = EmptyFilePart("a.mp4")],
     [Std EXCEPT !.thumbnailFile = EmptyFilePart("b.jpg")],
     [Std EXCEPT !.thumbnailFile = NoFilePart],
     [Std EXCEPT !.title = NoField, !.thumbnailFile = NoFilePart]}
    \cup {[Std EXCEPT !.title = t] : t \in TextSamples}
    \cup {[Std EXCEPT !.description = t] : t \in TextSamples}
    \cup {[Std EXCEPT !.duration = d] : d \in DurationSamples}
    \cup {[Std EXCEPT !.isPremium = p] : p \in PremiumSamples}

NoRequest == [Std EXCEPT !.method = ""]

\* ------------------------------------------------------- staging directory
\* parseForm's `filename` option: the staging file is named after the file
\* the client declared, or after the form field when it declared none
\* (keepExtensions then has no extension to keep).
filename(name, part) ==
    IF part.originalFilename # "" THEN part.originalFilename ELSE name

\* file.filepath: uploadDir joined with the name chosen above.
filepath(name, part) == filename(name, part)

Paths ==
    UNION {{filepath("videoFile", r.videoFile),
            filepath("thumbnailFile", r.thumbnailFile)} : r \in Requests}

\* What a staging path holds: the bytes of a part of a request, or nothing.
Bytes(i, part) == [owner |-> i, part |-> part]
NoBytes == [owner |-> 0, part |-> ""]

\* The paths at which the parts of request r are staged.
StagingPaths(r) ==
    (IF r.videoFile.has THEN {filepath("videoFile", r.videoFile)} ELSE {})
    \cup (IF r.thumbnailFile.has
          THEN {filepath("thumbnailFile", r.thumbnailFile)} ELSE {})

\* ------------------------------------------------------------ collaborators
\* The URL @vercel/blob's put resolves with: the pathname it was given and a
\* suffix of its own, different for every call.
BlobUrl(name, i, stage) == [pathname |-> name, inv |-> i, stage |-> stage]
NoUrl == [pathname |-> "", inv |-> 0, stage |-> ""]

\* Permission.read(Role.any()), Permission.update(Role.team(id)), ...
Permission(action, role) == [action |-> action, role |-> role]
RoleAny == [kind |-> "any", id |-> ""]
RoleTeam(id) == [kind |-> "team", id |-> id]

NoData ==
    [title |-> "", description |-> "", duration |-> 0, isPremium |-> FALSE,
     genre |-> "", tags |-> "", thumbnailUrl |-> NoUrl, videoUrl |-> NoUrl,
     viewsCount |-> 0]

NoDocument == [id |-> 0, data |-> NoData, permissions |-> <<>>]

\* What the collaborators and the parser reject with (error.message).
BlobErrors == {"blob store unavailable", "blob store rejected the upload"}
DatabaseError == "database error"
ParseError == "parse error"
EmptyFileError == "options.allowEmptyFiles is false, file size should be greater than 0"
ENOENT == "ENOENT: no such file or directory"

\* ------------------------------------------------------------------ state
VARIABLES
    pc,         \* pc[i]: the await invocation i is suspended at
    req,        \* req[i]: the request invocation i serves
    tmp,        \* tmp[p]: what the staging directory holds at path p
    loc,        \* loc[i]: the handler's local constants of invocation i
    puts,       \* puts[i]: the put calls invocation i made, in order
    creates,    \* creates[i]: its createDocument calls, in order
    blobs,      \* the assets the blob store holds
    db,         \* the documents the collection holds
    res,        \* res[i]: the response invocation i sent
    sent,       \* sent[i]: how many responses it sent
    log,        \* log[i]: the stages it went through, with their outcome
    warned,     \* warned[i]: how many failed unlinks it caught and logged
    destroyed   \* destroyed[i]: the files formidable is yet to unlink after
                \* the parse error of invocation i

\* ------------------------------------------------- the pages: their values
\* JavaScript's null and undefined.
Null == "null"
Undefined == "undefined"

\* A document of the collection as the pages use it: by its $id.  The
\* collection is another party's data; a document may come without an $id.
Document(id) == [id |-> id]
NullDocument == Document(Null)
VideoIds == {"v1", "v2", Undefined}

\* What listDocuments may resolve with as response.documents.
Catalogues ==
    {<<>>, <<Document("v1")>>, <<Document("v1"), Document("v2")>>,
     <<Document(Undefined), Document("v2")>>}

\* !videoId of videoDetailPage.jsx line 19.
NoVideoId(id) == id \in {Null, Undefined, ""}

\* A page that is not rendered has no state.  Of a rendered page, beside its
\* useState values: the prop videoId, how many Appwrite calls its effect
\* made (fetches) and whether its call rejected.
Unmounted ==
    [mounted |-> FALSE, videoId |-> Null, videos |-> <<>>, video |-> NullDocument,
     loading |-> FALSE, error |-> Null, fetches |-> 0, rejected |-> FALSE]

\* HomePage.jsx lines 6-8 and 15-29: Home as mounted, its effect run up to
\* the await of listDocuments.
HomeMounted ==
    [Unmounted EXCEPT !.mounted = TRUE, !.loading = TRUE, !.fetches = 1]

\* A call to Appwrite that has not settled; live while the page instance
\* that made it is still mounted.
Call(op, id) == [op |-> op, id |-> id, live |-> TRUE]

VARIABLES
    currentPage,        \* App's currentPage
    selectedVideoId,    \* App's selectedVideoId
    home,               \* the state of Home while it is rendered
    detail,             \* the state of VideoDetailPage while it is rendered
    pending,            \* the Appwrite calls of the pages that have not settled
    lastVideoId         \* the id last passed to navigateToVideoDetail

appVars == <<currentPage, selectedVideoId, home, detail, pending, lastVideoId>>

uploadVars == <<pc, req, tmp, loc, puts, creates, blobs, db, res, sent, log,
                warned, destroyed>>

vars == <<pc, req, tmp, loc, puts, creates, blobs, db, res, sent, log,
          warned, destroyed, currentPage, selectedVideoId, home, detail,
          pending, lastVideoId>>

NoLocals ==
    [videoFileBuffer |-> NoBytes, thumbnailFileBuffer |-> NoBytes,
     videoBlob |-> NoUrl, thumbnailBlob |-> NoUrl]

NoResponse ==
    [status |-> 0, error |-> "", message |-> "", details |-> "",
     video |-> NoDocument, videoBlobUrl |-> NoUrl, thumbnailBlobUrl |-> NoUrl]

Init ==
    /\ pc = [i \in Invocations |-> "idle"]
    /\ req = [i \in Invocations |-> NoRequest]
    /\ tmp = [p \in Paths |-> NoBytes]
    /\ loc = [i \in Invocations |-> NoLocals]
    /\ puts = [i \in Invocations |-> <<>>]
    /\ creates = [i \in Invocations |-> <<>>]
    /\ blobs = {}
    /\ db = {}
    /\ res = [i \in Invocations |-> NoResponse]
    /\ sent = [i \in Invocations |-> 0]
    /\ log = [i \in Invocations |-> <<>>]
    /\ warned = [i \in Invocations |-> 0]
    /\ destroyed = [i \in Invocations |-> {}]
    /\ currentPage = "home"
    /\ selectedVideoId = Null
    /\ home = HomeMounted
    /\ detail = Unmounted
    /\ pending = {Call("listDocuments", Null)}
    /\ lastVideoId = Null

Stage(name, ok) == [stage |-> name, ok |-> ok]

\* res.status(s).json(body) as the last thing the invocation does; `stages`
\* are the stage outcomes the step adds before responding.
Respond(i, body, stages) ==
    /\ res' = [res EXCEPT ![i] = body]
    /\ sent' = [sent EXCEPT ![i] = @ + 1]
    /\ log' = [log EXCEPT ![i] = @ \o stages \o <<Stage("respond", TRUE)>>]
    /\ pc' = [pc EXCEPT ![i] = "done"]

\* The catch block without the `details` of line 137.
InternalServerErrorWithoutDetails(msg) ==
    [NoResponse EXCEPT
        !.status = 500,
        !.error = "Internal Server Error",
        !.message = "Failed to process video upload and save metadata. Please check server logs for details and try again."]

\* The catch block (lines 132-139): whatever was thrown, a 500 with its message.
InternalServerError(msg) ==
    [NoResponse EXCEPT
        !.status = 500,
        !.error = "Internal Server Error",
        !.message = "Failed to process video upload and save metadata. Please check server logs for details and try again.",
        !.details = msg]

Catch(i, msg, stages) == Respond(i, InternalServerError(msg), stages)

\* ------------------------------------------------- handler: pure parts
\* Lines 59-70: what the handler extracts from the parsed form.  (formidable
\* hands the fields over as scalars or as one-element arrays, depending on
\* its version; both branches of the Array.isArray tests give the same value.)
\* Line 62 taking any non-empty text for true.
isPremiumOfTruthy(r) == r.isPremium.has /\ r.isPremium.val # ""

isPremiumOf(r) == r.isPremium.has /\ r.isPremium.val = "true"

OrEmpty(f) == IF Falsy(f) THEN "" ELSE f.val

durationOf(r) == parseInt(r.duration)

\* Line 72 without its isNaN test.
InvalidIgnoringDuration(r) ==
    \/ Falsy(r.title)
    \/ Falsy(r.description)
    \/ ~r.videoFile.has
    \/ ~r.thumbnailFile.has
    \/ Falsy(r.teamId)

\* Line 72 without its teamId test.
InvalidIgnoringTeamId(r) ==
    \/ Falsy(r.title)
    \/ Falsy(r.description)
    \/ isNaN(durationOf(r))
    \/ ~r.videoFile.has
    \/ ~r.thumbnailFile.has

\* Line 72: the validation test.
Invalid(r) ==
    \/ Falsy(r.title)
    \/ Falsy(r.description)
    \/ isNaN(durationOf(r))
    \/ ~r.videoFile.has
    \/ ~r.thumbnailFile.has
    \/ Falsy(r.teamId)

\* Line 75 answering with the status of the catch block.
BadRequestAsServerError ==
    [NoResponse EXCEPT
        !.status = 500,
        !.error = "Bad Request",
        !.message = "Missing required fields or invalid data."]

BadRequest ==
    [NoResponse EXCEPT
        !.status = 400,
        !.error = "Bad Request",
        !.message = "Missing required fields or invalid data."]

MethodNotAllowed ==
    [NoResponse EXCEPT
        !.status = 405,
        !.error = "Method Not Allowed",
        !.message = "This endpoint only accepts POST requests for video uploads and metadata saving."]

\* Lines 94-105 with the two URLs of lines 101-102 exchanged.
videoDataSwapped(r, l) ==
    [title |-> r.title.val,
     description |-> r.description.val,
     duration |-> durationOf(r).num,
     isPremium |-> isPremiumOf(r),
     genre |-> OrEmpty(r.genre),
     tags |-> OrEmpty(r.tags),
     thumbnailUrl |-> l.videoBlob,
     videoUrl |-> l.thumbnailBlob,
     viewsCount |-> 0]

\* Lines 94-105 (uploadDate, the time of the call, is left out).
videoData(r, l) ==
    [title |-> r.title.val,
     description |-> r.description.val,
     duration |-> durationOf(r).num,
     isPremium |-> isPremiumOf(r),
     genre |-> OrEmpty(r.genre),
     tags |-> OrEmpty(r.tags),
     thumbnailUrl |-> l.thumbnailBlob,
     videoUrl |-> l.videoBlob,
     viewsCount |-> 0]

\* Line 111 granting update to any role.
permissionsUpdateByAny(r) ==
    <<Permission("read", RoleAny),
      Permission("update", RoleAny),
      Permission("delete", RoleTeam(r.teamId.val))>>

\* Lines 107-113.
permissions(r) ==
    <<Permission("read", RoleAny),
      Permission("update", RoleTeam(r.teamId.val)),
      Permission("delete", RoleTeam(r.teamId.val))>>

\* Lines 125-130.
Success(doc, l) ==
    [NoResponse EXCEPT
        !.status = 200,
        !.message = "Video uploaded and metadata saved successfully!",
        !.video = doc,
        !.videoBlobUrl = l.videoBlob,
        !.thumbnailBlobUrl = l.thumbnailBlob]

VideoPath(i) == filepath("videoFile", req[i].videoFile)
ThumbnailPath(i) == filepath("thumbnailFile", req[i].thumbnailFile)

\* ---------------------------------------------------- handler: the steps
\* Lines 38-55 without the method test of lines 39-44.
ReceiveAnyMethod(i) ==
    /\ pc[i] = "idle"
    /\ \E r \in Requests :
        /\ req' = [req EXCEPT ![i] = r]
        /\ pc' = [pc EXCEPT ![i] = "parsing"]
        /\ UNCHANGED <<res, sent, log>>
    /\ UNCHANGED <<tmp, loc, puts, creates, blobs, db, warned, destroyed>>
    /\ UNCHANGED appVars

\* Lines 38-55: a request arrives.  Anything but POST is answered at once;
\* otherwise parseForm starts reading the body.
Receive(i) ==
    /\ pc[i] = "idle"
    /\ \E r \in Requests :
        /\ req' = [req EXCEPT ![i] = r]
        /\ IF r.method # "POST"
           THEN Respond(i, MethodNotAllowed, <<>>)
           ELSE /\ pc' = [pc EXCEPT ![i] = "parsing"]
                /\ UNCHANGED <<res, sent, log>>
    /\ UNCHANGED <<tmp, loc, puts, creates, blobs, db, warned, destroyed>>
    /\ UNCHANGED appVars

\* parseForm (lines 143-167): formidable writes the video part of the body
\* to its staging path.
StageVideo(i) ==
    /\ pc[i] = "parsing"
    /\ req[i].videoFile.has
    /\ tmp' = [tmp EXCEPT ![VideoPath(i)] = Bytes(i, "videoFile")]
    /\ pc' = [pc EXCEPT ![i] = "parsingThumbnail"]
    /\ UNCHANGED <<req, loc, puts, creates, blobs, db, res, sent, log, warned, destroyed>>
    /\ UNCHANGED appVars

\* ... and the thumbnail part, which follows the video part when both are sent.
StageThumbnail(i) ==
    /\ pc[i] = IF req[i].videoFile.has THEN "parsingThumbnail" ELSE "parsing"
    /\ req[i].thumbnailFile.has
    /\ tmp' = [tmp EXCEPT ![ThumbnailPath(i)] = Bytes(i, "thumbnailFile")]
    /\ pc' = [pc EXCEPT ![i] = "parsed"]
    /\ UNCHANGED <<req, loc, puts, creates, blobs, db, res, sent, log, warned, destroyed>>
    /\ UNCHANGED appVars

\* Whether every part the body carries has been written.
AllStaged(i) ==
    \/ pc[i] = "parsed"
    \/ pc[i] = "parsingThumbnail" /\ ~req[i].thumbnailFile.has
    \/ pc[i] = "parsing" /\ ~req[i].videoFile.has /\ ~req[i].thumbnailFile.has

\* The paths invocation i's parse has written so far.
Opened(i) ==
    (IF pc[i] \in {"parsingThumbnail", "parsed"} /\ req[i].videoFile.has
     THEN {VideoPath(i)} ELSE {})
    \cup (IF pc[i] = "parsed" /\ req[i].thumbnailFile.has
          THEN {ThumbnailPath(i)} ELSE {})

\* Lines 159-163: the body is not valid multipart or the client goes away;
\* parseForm rejects and the handler's catch block answers.  The handler
\* removes nothing here; formidable, when it reports an error, leaves the
\* files it had opened to be unlinked by a timer of its own.
ParseFail(i) ==
    /\ pc[i] \in {"parsing", "parsingThumbnail", "parsed"}
    /\ destroyed' = [destroyed EXCEPT ![i] = Opened(i)]
    /\ Catch(i, ParseError, <<Stage("parse", FALSE)>>)
    /\ UNCHANGED <<req, tmp, loc, puts, creates, blobs, db, warned>>
    /\ UNCHANGED appVars

\* form.parse (line 159) with formidable's allowEmptyFiles off, as it is by
\* default in formidable 3 and is not in formidable 2 (lines 145-152 do not
\* set it): the part just written turns out to have no bytes, and the parse
\* fails as above.  Where the option is on, the empty file stays staged and
\* the parse goes on.
EmptyFileRejected(i) ==
    /\ \/ pc[i] = "parsingThumbnail" /\ req[i].videoFile.size = 0
       \/ pc[i] = "parsed" /\ req[i].thumbnailFile.has /\ req[i].thumbnailFile.size = 0
    /\ destroyed' = [destroyed EXCEPT ![i] = Opened(i)]
    /\ Catch(i, EmptyFileError, <<Stage("parse", FALSE)>>)
    /\ UNCHANGED <<req, tmp, loc, puts, creates, blobs, db, warned>>
    /\ UNCHANGED appVars

\* form.parse (line 159) after an error: formidable's timer unlinks one of the
\* files it had opened, whatever the path holds by then, if the process is
\* still running.
FormidableUnlink(i) ==
    /\ \E p \in destroyed[i] :
        /\ tmp' = [tmp EXCEPT ![p] = NoBytes]
        /\ destroyed' = [destroyed EXCEPT ![i] = @ \ {p}]
    /\ UNCHANGED <<pc, req, loc, puts, creates, blobs, db, res, sent, log, warned>>
    /\ UNCHANGED appVars

\* Lines 55-79: parseForm resolves, the handler extracts the fields and
\* validates them.  A request it rejects has its staged files removed (line
\* 73 first, when there is a video) and is answered 400; for a request it
\* accepts the handler starts reading the staged video.
Validate(i) ==
    /\ AllStaged(i)
    /\ LET r == req[i]
           stages == <<Stage("parse", TRUE), Stage("validate", ~Invalid(r))>>
       IN  IF Invalid(r) /\ ~r.videoFile.has /\ ~r.thumbnailFile.has
           THEN Respond(i, BadRequest, stages)
           ELSE /\ pc' = [pc EXCEPT ![i] =
                            IF ~Invalid(r) THEN "readVideo"
                            ELSE IF r.videoFile.has THEN "rejectUnlinkVideo"
                            ELSE "rejectUnlinkThumbnail"]
                /\ log' = [log EXCEPT ![i] = @ \o stages]
                /\ UNCHANGED <<res, sent>>
    /\ UNCHANGED <<req, tmp, loc, puts, creates, blobs, db, warned, destroyed>>
    /\ UNCHANGED appVars

\* fs.unlink: the path is gone afterwards (it rejects when the path is absent).
unlink(dir, p) == [dir EXCEPT ![p] = NoBytes]

\* Whether that unlink rejects, as the number of warnings its catch logs.
unlinkRejects(dir, p) == IF dir[p] = NoBytes THEN 1 ELSE 0

\* Line 73 left out: the video of a rejected request stays.
RejectUnlinkVideoSkipped(i) ==
    /\ pc[i] = "rejectUnlinkVideo"
    /\ IF req[i].thumbnailFile.has
       THEN /\ pc' = [pc EXCEPT ![i] = "rejectUnlinkThumbnail"]
            /\ UNCHANGED <<res, sent, log>>
       ELSE Respond(i, BadRequest, <<>>)
    /\ UNCHANGED <<req, tmp, loc, puts, creates, blobs, db, warned, destroyed>>
    /\ UNCHANGED appVars

\* Line 73: the rejected request's video is unlinked (a failing unlink is
\* caught and logged); then the thumbnail's turn, or the 400 when there is none.
RejectUnlinkVideo(i) ==
    /\ pc[i] = "rejectUnlinkVideo"
    /\ tmp' = unlink(tmp, VideoPath(i))
    /\ warned' = [warned EXCEPT ![i] = @ + unlinkRejects(tmp, VideoPath(i))]
    /\ IF req[i].thumbnailFile.has
       THEN /\ pc' = [pc EXCEPT ![i] = "rejectUnlinkThumbnail"]
            /\ UNCHANGED <<res, sent, log>>
       ELSE Respond(i, BadRequest, <<>>)
    /\ UNCHANGED <<req, loc, puts, creates, blobs, db, destroyed>>
    /\ UNCHANGED appVars

\* Lines 74-75 without the `return`: the 400 is sent and the handler goes on.
RejectUnlinkThumbnailWithoutReturn(i) ==
    /\ pc[i] = "rejectUnlinkThumbnail"
    /\ tmp' = unlink(tmp, ThumbnailPath(i))
    /\ warned' = [warned EXCEPT ![i] = @ + unlinkRejects(tmp, ThumbnailPath(i))]
    /\ res' = [res EXCEPT ![i] = BadRequest]
    /\ sent' = [sent EXCEPT ![i] = @ + 1]
    /\ log' = [log EXCEPT ![i] = Append(@, Stage("respond", TRUE))]
    /\ pc' = [pc EXCEPT ![i] = "readVideo"]
    /\ UNCHANGED <<req, loc, puts, creates, blobs, db, destroyed>>
    /\ UNCHANGED appVars

\* Lines 74-75: the same for its thumbnail, and the 400 response.
RejectUnlinkThumbnail(i) ==
    /\ pc[i] = "rejectUnlinkThumbnail"
    /\ tmp' = unlink(tmp, ThumbnailPath(i))
    /\ warned' = [warned EXCEPT ![i] = @ + unlinkRejects(tmp, ThumbnailPath(i))]
    /\ Respond(i, BadRequest, <<>>)
    /\ UNCHANGED <<req, loc, puts, creates, blobs, db, destroyed>>
    /\ UNCHANGED appVars

\* A put call as the blob store sees it, and what it resolved with (url) or
\* rejected with (error).
PutCall(name, body, url, error) ==
    [op |-> "put", pathname |-> name, body |-> body, access |-> "public",
     url |-> url, error |-> error]

\* The outcomes of a collaborator call: "" for success, or the message of
\* the error it rejects with.
Outcomes(errors) == {""} \cup errors

\* Line 79: fs.readFile of the staged video; the put of line 80 is called
\* with what was read.  The read rejects when the path is gone.
ReadVideo(i) ==
    /\ pc[i] = "readVideo"
    /\ IF tmp[VideoPath(i)] = NoBytes
       THEN /\ Catch(i, ENOENT, <<Stage("video", FALSE)>>)
            /\ UNCHANGED loc
       ELSE /\ loc' = [loc EXCEPT ![i].videoFileBuffer = tmp[VideoPath(i)]]
            /\ pc' = [pc EXCEPT ![i] = "putVideo"]
            /\ UNCHANGED <<res, sent, log>>
    /\ UNCHANGED <<req, tmp, puts, creates, blobs, db, warned, destroyed>>
    /\ UNCHANGED appVars

\* Line 80 called again when it rejects the first time.
PutVideoRetried(i) ==
    /\ pc[i] = "putVideo"
    /\ \E err \in Outcomes(BlobErrors) :
        LET name == filename("videoFile", req[i].videoFile)
            url == BlobUrl(name, i, "video")
        IN  /\ puts' = [puts EXCEPT ![i] =
                            Append(@, PutCall(name, loc[i].videoFileBuffer,
                                              IF err = "" THEN url ELSE NoUrl, err))]
            /\ IF err = ""
               THEN /\ loc' = [loc EXCEPT ![i].videoBlob = url]
                    /\ blobs' = blobs \cup {[url |-> url, body |-> loc[i].videoFileBuffer]}
                    /\ log' = [log EXCEPT ![i] = Append(@, Stage("video", TRUE))]
                    /\ pc' = [pc EXCEPT ![i] = "readThumbnail"]
                    /\ UNCHANGED <<res, sent>>
               ELSE IF puts[i] = <<>>
               THEN UNCHANGED <<pc, loc, blobs, log, res, sent>>
               ELSE /\ Catch(i, err, <<Stage("video", FALSE)>>)
                    /\ UNCHANGED <<loc, blobs>>
    /\ UNCHANGED <<req, tmp, creates, db, warned, destroyed>>
    /\ UNCHANGED appVars

\* Line 80: the put of the video resolves with the asset's URL, or rejects.
PutVideo(i) ==
    /\ pc[i] = "putVideo"
    /\ \E err \in Outcomes(BlobErrors) :
        LET name == filename("videoFile", req[i].videoFile)
            url == BlobUrl(name, i, "video")
        IN  /\ puts' = [puts EXCEPT ![i] =
                            Append(@, PutCall(name, loc[i].videoFileBuffer,
                                              IF err = "" THEN url ELSE NoUrl, err))]
            /\ IF err = ""
               THEN /\ loc' = [loc EXCEPT ![i].videoBlob = url]
                    /\ blobs' = blobs \cup {[url |-> url, body |-> loc[i].videoFileBuffer]}
                    /\ log' = [log EXCEPT ![i] = Append(@, Stage("video", TRUE))]
                    /\ pc' = [pc EXCEPT ![i] = "readThumbnail"]
                    /\ UNCHANGED <<res, sent>>
               ELSE /\ Catch(i, err, <<Stage("video", FALSE)>>)
                    /\ UNCHANGED <<loc, blobs>>
    /\ UNCHANGED <<req, tmp, creates, db, warned, destroyed>>
    /\ UNCHANGED appVars

\* Line 82: fs.readFile of the staged thumbnail.
ReadThumbnail(i) ==
    /\ pc[i] = "readThumbnail"
    /\ IF tmp[ThumbnailPath(i)] = NoBytes
       THEN /\ Catch(i, ENOENT, <<Stage("thumbnail", FALSE)>>)
            /\ UNCHANGED loc
       ELSE /\ loc' = [loc EXCEPT ![i].thumbnailFileBuffer = tmp[ThumbnailPath(i)]]
            /\ pc' = [pc EXCEPT ![i] = "putThumbnail"]
            /\ UNCHANGED <<res, sent, log>>
    /\ UNCHANGED <<req, tmp, puts, creates, blobs, db, warned, destroyed>>
    /\ UNCHANGED appVars

\* Line 83 with the rejection swallowed: the handler goes on without a
\* thumbnail URL.
PutThumbnailSwallowingError(i) ==
    /\ pc[i] = "putThumbnail"
    /\ \E err \in Outcomes(BlobErrors) :
        LET name == filename("thumbnailFile", req[i].thumbnailFile)
            url == BlobUrl(name, i, "thumbnail")
        IN  /\ puts' = [puts EXCEPT ![i] =
                            Append(@, PutCall(name, loc[i].thumbnailFileBuffer,
                                              IF err = "" THEN url ELSE NoUrl, err))]
            /\ loc' = [loc EXCEPT ![i].thumbnailBlob = IF err = "" THEN url ELSE NoUrl]
            /\ blobs' = IF err = ""
                        THEN blobs \cup {[url |-> url, body |-> loc[i].thumbnailFileBuffer]}
                        ELSE blobs
            /\ log' = [log EXCEPT ![i] = Append(@, Stage("thumbnail", err = ""))]
            /\ pc' = [pc EXCEPT ![i] = "unlinkVideo"]
    /\ UNCHANGED <<req, tmp, creates, db, res, sent, warned, destroyed>>
    /\ UNCHANGED appVars

\* Line 83: the put of the thumbnail resolves or rejects.
PutThumbnail(i) ==
    /\ pc[i] = "putThumbnail"
    /\ \E err \in Outcomes(BlobErrors) :
        LET name == filename("thumbnailFile", req[i].thumbnailFile)
            url == BlobUrl(name, i, "thumbnail")
        IN  /\ puts' = [puts EXCEPT ![i] =
                            Append(@, PutCall(name, loc[i].thumbnailFileBuffer,
                                              IF err = "" THEN url ELSE NoUrl, err))]
            /\ IF err = ""
               THEN /\ loc' = [loc EXCEPT ![i].thumbnailBlob = url]
                    /\ blobs' = blobs \cup {[url |-> url, body |-> loc[i].thumbnailFileBuffer]}
                    /\ log' = [log EXCEPT ![i] = Append(@, Stage("thumbnail", TRUE))]
                    /\ pc' = [pc EXCEPT ![i] = "unlinkVideo"]
                    /\ UNCHANGED <<res, sent>>
               ELSE /\ Catch(i, err, <<Stage("thumbnail", FALSE)>>)
                    /\ UNCHANGED <<loc, blobs>>
    /\ UNCHANGED <<req, tmp, creates, db, warned, destroyed>>
    /\ UNCHANGED appVars

\* Lines 86-87 without the try of line 86: a rejected unlink reaches the
\* catch of line 132.
UnlinkVideoUncaught(i) ==
    /\ pc[i] = "unlinkVideo"
    /\ tmp' = unlink(tmp, VideoPath(i))
    /\ warned' = [warned EXCEPT ![i] = @ + unlinkRejects(tmp, VideoPath(i))]
    /\ IF tmp[VideoPath(i)] = NoBytes
       THEN Catch(i, ENOENT, <<>>)
       ELSE /\ pc' = [pc EXCEPT ![i] = "unlinkThumbnail"]
            /\ UNCHANGED <<res, sent, log>>
    /\ UNCHANGED <<req, loc, puts, creates, blobs, db, destroyed>>
    /\ UNCHANGED appVars

\* Lines 86-87: the staged video is unlinked.  When that rejects, the catch
\* of line 89 logs a warning and line 88 is skipped.
UnlinkVideo(i) ==
    /\ pc[i] = "unlinkVideo"
    /\ tmp' = unlink(tmp, VideoPath(i))
    /\ warned' = [warned EXCEPT ![i] = @ + unlinkRejects(tmp, VideoPath(i))]
    /\ pc' = [pc EXCEPT ![i] = IF tmp[VideoPath(i)] = NoBytes
                               THEN "createDocument" ELSE "unlinkThumbnail"]
    /\ UNCHANGED <<req, loc, puts, creates, blobs, db, res, sent, log, destroyed>>
    /\ UNCHANGED appVars

\* Line 88 left out: the staged thumbnail is not unlinked.
UnlinkThumbnailSkipped(i) ==
    /\ pc[i] = "unlinkThumbnail"
    /\ pc' = [pc EXCEPT ![i] = "createDocument"]
    /\ UNCHANGED <<req, tmp, loc, puts, creates, blobs, db, res, sent, log,
                   warned, destroyed>>
    /\ UNCHANGED appVars

\* Lines 88-91: the staged thumbnail is unlinked (or a warning logged).
UnlinkThumbnail(i) ==
    /\ pc[i] = "unlinkThumbnail"
    /\ tmp' = unlink(tmp, ThumbnailPath(i))
    /\ warned' = [warned EXCEPT ![i] = @ + unlinkRejects(tmp, ThumbnailPath(i))]
    /\ pc' = [pc EXCEPT ![i] = "createDocument"]
    /\ UNCHANGED <<req, loc, puts, creates, blobs, db, res, sent, log, destroyed>>
    /\ UNCHANGED appVars

\* Line 115 without its `await`: the rejection of createDocument is not
\* caught and the 200 is sent whatever its outcome.
CreateDocumentNotAwaited(i) ==
    /\ pc[i] = "createDocument"
    /\ \E err \in Outcomes({DatabaseError}) :
        LET data == videoData(req[i], loc[i])
            doc == [id |-> Cardinality(db) + 1, data |-> data,
                    permissions |-> permissions(req[i])]
        IN  /\ creates' = [creates EXCEPT ![i] =
                            Append(@, [data |-> data,
                                       permissions |-> permissions(req[i]),
                                       error |-> err])]
            /\ db' = IF err = "" THEN db \cup {doc} ELSE db
            /\ Respond(i, Success(NoDocument, loc[i]), <<Stage("metadata", TRUE)>>)
    /\ UNCHANGED <<req, tmp, loc, puts, blobs, warned, destroyed>>
    /\ UNCHANGED appVars

\* Lines 94-130: createDocument resolves with the stored document, which the
\* 200 response carries, or rejects.
CreateDocument(i) ==
    /\ pc[i] = "createDocument"
    /\ \E err \in Outcomes({DatabaseError}) :
        LET data == videoData(req[i], loc[i])
            doc == [id |-> Cardinality(db) + 1, data |-> data,
                    permissions |-> permissions(req[i])]
        IN  /\ creates' = [creates EXCEPT ![i] =
                            Append(@, [data |-> data,
                                       permissions |-> permissions(req[i]),
                                       error |-> err])]
            /\ IF err = ""
               THEN /\ db' = db \cup {doc}
                    /\ Respond(i, Success(doc, loc[i]), <<Stage("metadata", TRUE)>>)
               ELSE /\ Catch(i, err, <<Stage("metadata", FALSE)>>)
                    /\ UNCHANGED db
    /\ UNCHANGED <<req, tmp, loc, puts, blobs, warned, destroyed>>
    /\ UNCHANGED appVars

Next ==
    \E i \in Invocations :
        \/ Receive(i)
        \/ StageVideo(i)
        \/ StageThumbnail(i)
        \/ ParseFail(i)
        \/ EmptyFileRejected(i)
        \/ FormidableUnlink(i)
        \/ Validate(i)
        \/ RejectUnlinkVideo(i)
        \/ RejectUnlinkThumbnail(i)
        \/ ReadVideo(i)
        \/ PutVideo(i)
        \/ ReadThumbnail(i)
        \/ PutThumbnail(i)
        \/ UnlinkVideo(i)
        \/ UnlinkThumbnail(i)
        \/ CreateDocument(i)

Spec == Init /\ [][Next]_vars

\* ================================================================ the pages
\* App.jsx, HomePage.jsx and videoDetailPage.jsx.  App renders one page at a
\* time (lines 24-37); a page that stops being rendered is unmounted, and
\* what its pending call does when it settles afterwards has no effect.
Abandoned(cs) == {[c EXCEPT !.live = FALSE] : c \in cs}

NoVideoIdProvided == "No video ID provided."
FailedToLoadVideo ==
    "Failed to load video. It might not exist or there's a network issue."

\* videoDetailPage.jsx lines 17-39 without the test of lines 19-23.
DetailMountedWithoutGuard(videoId) ==
    [Unmounted EXCEPT !.mounted = TRUE, !.videoId = videoId,
                      !.loading = TRUE, !.fetches = 1]

\* videoDetailPage.jsx lines 6-9 and 17-39: VideoDetailPage as mounted with
\* the prop videoId, its effect run up to the return of line 22 or the await
\* of getDocument.
DetailMounted(videoId) ==
    IF NoVideoId(videoId)
    THEN [Unmounted EXCEPT !.mounted = TRUE, !.videoId = videoId,
                           !.error = NoVideoIdProvided, !.loading = FALSE]
    ELSE [Unmounted EXCEPT !.mounted = TRUE, !.videoId = videoId,
                           !.loading = TRUE, !.fetches = 1]

\* App.jsx lines 18-21 with line 19 left out.
navigateToHomeKeepingId ==
    /\ currentPage' = "home"
    /\ UNCHANGED <<selectedVideoId, lastVideoId>>
    /\ IF currentPage = "home"
       THEN UNCHANGED <<home, detail, pending>>
       ELSE /\ home' = HomeMounted
            /\ detail' = Unmounted
            /\ pending' = Abandoned(pending) \cup {Call("listDocuments", Null)}
    /\ UNCHANGED uploadVars

\* App.jsx lines 18-21: both states are set, and the render that follows
\* shows Home (mounting it, unless it is the page already shown).
navigateToHome ==
    /\ selectedVideoId' = Null
    /\ currentPage' = "home"
    /\ UNCHANGED lastVideoId
    /\ IF currentPage = "home"
       THEN UNCHANGED <<home, detail, pending>>
       ELSE /\ home' = HomeMounted
            /\ detail' = Unmounted
            /\ pending' = Abandoned(pending) \cup {Call("listDocuments", Null)}
    /\ UNCHANGED uploadVars

\* App.jsx lines 12-15: both states are set, and the render that follows
\* shows VideoDetailPage with the id.
navigateToVideoDetail(videoId) ==
    /\ selectedVideoId' = videoId
    /\ currentPage' = "detail"
    /\ lastVideoId' = videoId
    /\ home' = Unmounted
    /\ detail' = DetailMounted(videoId)
    /\ pending' = Abandoned(pending)
                  \cup (IF NoVideoId(videoId) THEN {}
                        ELSE {Call("getDocument", videoId)})
    /\ UNCHANGED uploadVars

\* HomePage.jsx lines 73-78: a card of the grid is clicked.
ClickVideo ==
    /\ currentPage = "home"
    /\ ~home.loading /\ home.error = Null
    /\ \E k \in 1..Len(home.videos) : navigateToVideoDetail(home.videos[k].id)

\* App.jsx lines 46-51: the Home button.
ClickHome == navigateToHome

\* videoDetailPage.jsx lines 55-60: the Back button (onBack).
ClickBack == currentPage = "detail" /\ navigateToHome

\* App.jsx lines 52-57: the Upload button.
ClickUpload ==
    /\ currentPage' = "upload"
    /\ UNCHANGED <<selectedVideoId, lastVideoId>>
    /\ home' = Unmounted
    /\ detail' = Unmounted
    /\ pending' = Abandoned(pending)
    /\ UNCHANGED uploadVars

\* HomePage.jsx lines 26-31 and 35-37: listDocuments resolves.
ListDocumentsResolves ==
    /\ \E c \in pending :
        /\ c.op = "listDocuments"
        /\ pending' = pending \ {c}
        /\ IF c.live
           THEN \E documents \in Catalogues :
                    home' = [home EXCEPT !.videos = documents, !.loading = FALSE]
           ELSE UNCHANGED home
    /\ UNCHANGED <<currentPage, selectedVideoId, lastVideoId, detail>>
    /\ UNCHANGED uploadVars

\* HomePage.jsx lines 32-37: listDocuments rejects.  The catch binds the
\* rejection as `error` and line 33 reads `err`, which nothing declares: the
\* ReferenceError leaves the catch block before line 34, and the finally
\* block still runs.
ListDocumentsRejects ==
    /\ \E c \in pending :
        /\ c.op = "listDocuments"
        /\ pending' = pending \ {c}
        /\ IF c.live
           THEN home' = [home EXCEPT !.loading = FALSE, !.rejected = TRUE]
           ELSE UNCHANGED home
    /\ UNCHANGED <<currentPage, selectedVideoId, lastVideoId, detail>>
    /\ UNCHANGED uploadVars

\* videoDetailPage.jsx lines 35-41 and 45-47: getDocument resolves.
GetDocumentResolves ==
    /\ \E c \in pending :
        /\ c.op = "getDocument"
        /\ pending' = pending \ {c}
        /\ IF c.live
           THEN detail' = [detail EXCEPT !.video = Document(c.id), !.loading = FALSE]
           ELSE UNCHANGED detail
    /\ UNCHANGED <<currentPage, selectedVideoId, lastVideoId, home>>
    /\ UNCHANGED uploadVars

\* videoDetailPage.jsx lines 42-47: getDocument rejects.
GetDocumentRejects ==
    /\ \E c \in pending :
        /\ c.op = "getDocument"
        /\ pending' = pending \ {c}
        /\ IF c.live
           THEN detail' = [detail EXCEPT !.error = FailedToLoadVideo,
                                         !.loading = FALSE, !.rejected = TRUE]
           ELSE UNCHANGED detail
    /\ UNCHANGED <<currentPage, selectedVideoId, lastVideoId, home>>
    /\ UNCHANGED uploadVars

AppNext ==
    \/ ClickVideo
    \/ ClickHome
    \/ ClickBack
    \/ ClickUpload
    \/ ListDocumentsResolves
    \/ ListDocumentsRejects
    \/ GetDocumentResolves
    \/ GetDocumentRejects

AppSpec == Init /\ [][AppNext]_vars

\* ================================================================ claims
Done(i) == pc[i] = "done"

\* Whether parseForm resolved for invocation i.
Parsed(i) == log[i] # <<>> /\ log[i][1] = Stage("parse", TRUE)

\* No call to the blob store and none to the document store.
NoCollaboratorCall(i) == puts[i] = <<>> /\ creates[i] = <<>>

\* The files of invocation i that the staging directory holds.
StagedFiles(i) == {p \in Paths : tmp[p].owner = i}

\* A text with no number to read at its head: no digit follows the optional
\* white space and sign ("abc", "", "-"; "12a" reads as 12 and is numeric).
NonNumeric(d) ==
    \/ ~d.has
    \/ \A k \in 1..Len(d.val) :
          d.val[k] \in Digits => \E m \in 1..(k - 1) : d.val[m] \notin {" ", "-", "+"}

MissingRequired(r) ==
    \/ Falsy(r.title)
    \/ Falsy(r.description)
    \/ NonNumeric(r.duration)
    \/ ~r.videoFile.has
    \/ ~r.thumbnailFile.has

\* C1: a POST request that lacks title, description or either file part, or
\* whose duration is not numeric, never causes a put or a createDocument
\* call, and once parsed it is answered 400.
C1_InvalidInputNoCalls ==
    \A i \in Invocations :
        req[i].method = "POST" /\ MissingRequired(req[i])
            => /\ NoCollaboratorCall(i)
               /\ Done(i) /\ Parsed(i) => res[i] = BadRequest

\* Two rejected requests, one for its duration "abc" and one for its missing
\* thumbnail.
C1_Witness ==
    \E i, j \in Invocations :
        /\ Done(i) /\ req[i] = [Std EXCEPT !.duration = Chars(<<"a", "b", "c">>)]
        /\ res[i].status = 400
        /\ Done(j) /\ req[j] = [Std EXCEPT !.thumbnailFile = NoFilePart]
        /\ res[j].status = 400

PositiveInteger(n) == ~n.nan /\ n.num > 0

\* C2: a request whose duration does not parse to a positive integer ("0",
\* "-5" included) is rejected with 400 and reaches none of the video,
\* thumbnail and persistence stages.
C2_NonPositiveDurationRejected ==
    \A i \in Invocations :
        req[i].method = "POST" /\ ~PositiveInteger(parseInt(req[i].duration))
            => /\ NoCollaboratorCall(i)
               /\ pc[i] \notin {"readVideo", "putVideo", "readThumbnail",
                                "putThumbnail", "createDocument"}
               /\ Done(i) /\ Parsed(i) => res[i].status = 400

\* C3: once the handler has returned, none of the files its parse staged is
\* left in the staging directory, whichever way it returned.
C3_NoStagedFileAfterReturn ==
    \A i \in Invocations : Done(i) => StagedFiles(i) = {}

\* The put of the video resolved and the put of the thumbnail rejected.
ThumbnailFailedAfterVideo(i) ==
    /\ Len(puts[i]) = 2
    /\ puts[i][1].error = ""
    /\ puts[i][2].error # ""

\* The put of the video rejected.
VideoPutFailed(i) == Len(puts[i]) = 1 /\ puts[i][1].error # ""

\* The asset a resolved put call created is in the blob store.
StillStored(call) == [url |-> call.url, body |-> call.body] \in blobs

\* Every call the invocation made to the blob store is a put: it deleted nothing.
OnlyPuts(i) == \A k \in 1..Len(puts[i]) : puts[i][k].op = "put"

WellFormed(r) ==
    /\ r.method = "POST"
    /\ ~Falsy(r.title) /\ ~Falsy(r.description) /\ ~Falsy(r.teamId)
    /\ PositiveInteger(parseInt(r.duration))
    /\ r.videoFile.has /\ r.thumbnailFile.has
    /\ r.videoFile.size > 0 /\ r.thumbnailFile.size > 0

\* No parse, file read or collaborator call of the invocation failed.
NothingRejected(i) ==
    \A k \in 1..Len(log[i]) : log[i][k].stage # "validate" => log[i][k].ok

\* C5: a well-formed request all of whose calls succeed creates exactly one
\* record, with viewsCount 0, videoUrl the URL the video put returned and
\* thumbnailUrl the URL the thumbnail put returned; the 200 response carries
\* that record and the same two URLs.
C5_RecordCarriesReturnedUrls ==
    \A i \in Invocations :
        Done(i) /\ WellFormed(req[i]) /\ NothingRejected(i)
            => /\ Len(puts[i]) = 2 /\ Len(creates[i]) = 1
               /\ res[i].status = 200
               /\ res[i].video \in db
               /\ res[i].video.data = creates[i][1].data
               /\ creates[i][1].data.viewsCount = 0
               /\ creates[i][1].data.videoUrl = puts[i][1].url
               /\ creates[i][1].data.thumbnailUrl = puts[i][2].url
               /\ puts[i][1].pathname = filename("videoFile", req[i].videoFile)
               /\ res[i].videoBlobUrl = puts[i][1].url
               /\ res[i].thumbnailBlobUrl = puts[i][2].url

\* A record was created from two different URLs.
C5_Witness ==
    \E i \in Invocations :
        /\ Done(i) /\ WellFormed(req[i]) /\ NothingRejected(i)
        /\ res[i].status = 200
        /\ res[i].videoBlobUrl # res[i].thumbnailBlobUrl

StageOrder == <<"parse", "validate", "video", "thumbnail", "metadata">>

\* The stages invocation i went through, the response left out.
Stages(i) == SelectSeq(log[i], LAMBDA e : e.stage # "respond")

\* The number of stages completed before the one the invocation is in.
StagesBefore(i) ==
    CASE pc[i] \in {"parsing", "parsingThumbnail", "parsed"} -> 0
      [] pc[i] \in {"readVideo", "putVideo"} -> 2
      [] pc[i] \in {"readThumbnail", "putThumbnail"} -> 3
      [] pc[i] \in {"unlinkVideo", "unlinkThumbnail", "createDocument"} -> 4
      [] OTHER -> Len(Stages(i))

\* C6: the stages of an invocation occur in the order parse, validate, store
\* video, store thumbnail, store metadata, respond; a stage is entered only
\* when all the stages before it succeeded, nothing but the removal of the
\* staged files and the response follows a failed stage, and exactly one
\* response is sent.
C6_StagesInOrder ==
    \A i \in Invocations :
        LET st == Stages(i)
            n == Len(st)
        IN  /\ n <= Len(StageOrder)
            /\ \A k \in 1..n : st[k].stage = StageOrder[k]
            /\ \A k \in 1..(n - 1) : st[k].ok
            /\ n = StagesBefore(i)
            /\ n >= 1 /\ ~st[n].ok
                  => pc[i] \in {"rejectUnlinkVideo", "rejectUnlinkThumbnail", "done"}
            /\ pc[i] \notin {"idle", "done", "rejectUnlinkVideo", "rejectUnlinkThumbnail"}
                  => \A k \in 1..n : st[k].ok
            /\ Len(puts[i]) <= (IF n >= 3 THEN n - 2 ELSE 0)
            /\ Len(puts[i]) <= 2
            /\ creates[i] # <<>> => n = 5
            /\ log[i] = IF Done(i) THEN Append(st, Stage("respond", TRUE)) ELSE st
            /\ sent[i] = IF Done(i) THEN 1 ELSE 0
            /\ Done(i) => (res[i].status = 200 <=> n = 5 /\ st[5].ok)

\* One invocation went through all the stages, another stopped at the video.
C6_Witness ==
    \E i, j \in Invocations :
        /\ Done(i) /\ res[i].status = 200 /\ Len(Stages(i)) = 5
        /\ Done(j) /\ VideoPutFailed(j) /\ Len(Stages(j)) = 3

\* C7: an invocation calls createDocument at most once, and only after both
\* of its puts resolved; every record of the collection refers to two stored
\* assets.
C7_RecordOnlyAfterBothAssets ==
    /\ \A i \in Invocations :
        /\ Len(creates[i]) <= 1
        /\ creates[i] # <<>>
              => /\ Len(puts[i]) = 2
                 /\ \A k \in 1..2 : puts[i][k].error = "" /\ StillStored(puts[i][k])
                 /\ creates[i][1].data.videoUrl = puts[i][1].url
                 /\ creates[i][1].data.thumbnailUrl = puts[i][2].url
    /\ \A d \in db :
        /\ \E b \in blobs : b.url = d.data.videoUrl
        /\ \E b \in blobs : b.url = d.data.thumbnailUrl

\* A record was created by one invocation while another, whose thumbnail put
\* failed, created none.
C7_Witness ==
    \E i, j \in Invocations :
        /\ Len(creates[i]) = 1 /\ db # {}
        /\ Done(j) /\ ThumbnailFailedAfterVideo(j) /\ creates[j] = <<>>

InFlight(i) == pc[i] \notin {"idle", "done"}

\* The staging paths an invocation in flight has written: those its parse
\* has opened so far, all of its request's once the parse is over.
PathsUsed(i) ==
    IF pc[i] \in {"parsing", "parsingThumbnail", "parsed"} THEN Opened(i)
    ELSE IF InFlight(i) THEN StagingPaths(req[i])
    ELSE {}

\* C8: two invocations in flight never use the same staging path.
C8_StagingPathsUnique ==
    \A i, j \in Invocations :
        i # j /\ InFlight(i) /\ InFlight(j)
            => PathsUsed(i) \cap PathsUsed(j) = {}

\* C9: the record's isPremium is true exactly when the request's isPremium
\* text is "true", and a request that is otherwise well-formed passes
\* validation whatever its isPremium.
C9_IsPremiumLiteralTrue ==
    \A i \in Invocations :
        /\ \A k \in 1..Len(creates[i]) :
              creates[i][k].data.isPremium = (req[i].isPremium = Field("true"))
        /\ WellFormed(req[i]) /\ Len(Stages(i)) >= 2 => Stages(i)[2].ok

\* Records were created for isPremium "true" and for isPremium "TRUE".
C9_Witness ==
    \E i, j \in Invocations :
        /\ res[i].status = 200 /\ req[i].isPremium = Field("true")
        /\ res[i].video.data.isPremium
        /\ res[j].status = 200 /\ req[j].isPremium = Field("TRUE")
        /\ ~res[j].video.data.isPremium

FirstPutRejected(i) == puts[i] # <<>> /\ puts[i][1].error # ""

\* C11: when the put of the video rejects, the response is a 500 that tells
\* the video stage apart (it differs from the response to a failed thumbnail
\* put), both staged files are gone when it is sent, and the invocation makes
\* no other put and no createDocument call.
C11_VideoFailureReleasesStaged ==
    \A i \in Invocations :
        Done(i) /\ FirstPutRejected(i)
            => /\ res[i].status = 500
               /\ \A j \in Invocations :
                      Done(j) /\ ThumbnailFailedAfterVideo(j) => res[j] # res[i]
               /\ StagedFiles(i) = {}
               /\ Len(puts[i]) = 1
               /\ creates[i] = <<>>

\* Both puts of the invocation resolved and its createDocument rejected.
CreateFailedAfterPuts(i) ==
    /\ Len(puts[i]) = 2 /\ puts[i][1].error = "" /\ puts[i][2].error = ""
    /\ creates[i] # <<>> /\ creates[i][1].error # ""

\* C12: when createDocument rejects after both puts resolved, the response is
\* the 500 carrying no record, the collection holds no record made from the
\* invocation's assets, both assets are still in the blob store, and the
\* invocation made its two puts and nothing else: no delete, no second upload.
C12_PersistenceFailureKeepsAssets ==
    \A i \in Invocations :
        Done(i) /\ CreateFailedAfterPuts(i)
            => /\ res[i].status = 500
               /\ res[i].error = "Internal Server Error"
               /\ res[i].details = creates[i][1].error
               /\ res[i].video = NoDocument
               /\ \A d \in db : /\ d.data.videoUrl # puts[i][1].url
                                /\ d.data.thumbnailUrl # puts[i][2].url
               /\ StillStored(puts[i][1]) /\ StillStored(puts[i][2])
               /\ OnlyPuts(i)
               /\ Len(creates[i]) = 1

\* A createDocument that rejected, while the other invocation's record was
\* created.
C12_Witness ==
    \E i, j \in Invocations :
        /\ Done(i) /\ CreateFailedAfterPuts(i)
        /\ Done(j) /\ res[j].status = 200 /\ db # {}

\* C13: within one invocation the put of the video, the put of the thumbnail
\* and createDocument are each called at most once: at most two puts, the
\* first under the video's name and the second under the thumbnail's, no put
\* after one that rejected, and at most one createDocument.
C13_NoStageRetried ==
    \A i \in Invocations :
        /\ Len(puts[i]) <= 2
        /\ Len(puts[i]) >= 1
              => puts[i][1].pathname = filename("videoFile", req[i].videoFile)
        /\ Len(puts[i]) = 2
              => /\ puts[i][2].pathname = filename("thumbnailFile", req[i].thumbnailFile)
                 /\ puts[i][1].error = ""
        /\ Len(creates[i]) <= 1

\* Every way a stage can end, with the invocation over: a rejected video put,
\* a rejected thumbnail put and a rejected createDocument.
C13_Witness ==
    \E i, j \in Invocations :
        /\ Done(i) /\ (VideoPutFailed(i) \/ ThumbnailFailedAfterVideo(i))
        /\ Done(j) /\ CreateFailedAfterPuts(j)

\* Every stage of the invocation succeeded: the parse, the validation, both
\* puts and createDocument.
AllStagesSucceeded(i) ==
    /\ Parsed(i) /\ ~Invalid(req[i])
    /\ Len(puts[i]) = 2 /\ puts[i][1].error = "" /\ puts[i][2].error = ""
    /\ Len(creates[i]) = 1 /\ creates[i][1].error = ""

\* A put or the createDocument of the invocation rejected.
CollaboratorRejected(i) ==
    \/ \E k \in 1..Len(puts[i]) : puts[i][k].error # ""
    \/ \E k \in 1..Len(creates[i]) : creates[i][k].error # ""

\* C14: the status of the response is 200 exactly when every stage succeeded,
\* 400 exactly when the parsed request failed validation, and 500 when a put
\* or createDocument rejected; a 200 carries a record that createDocument
\* stored.
C14_StatusReflectsOutcome ==
    \A i \in Invocations :
        Done(i)
            => /\ res[i].status = 200 <=> AllStagesSucceeded(i)
               /\ res[i].status = 400 <=> Parsed(i) /\ Invalid(req[i])
               /\ CollaboratorRejected(i) => res[i].status = 500
               /\ res[i].status = 200
                     => /\ res[i].video \in db
                        /\ res[i].video.data = creates[i][1].data

\* A 200 whose record was stored, beside the 500 of a rejected call.
C14_Witness ==
    \E i, j \in Invocations :
        /\ Done(i) /\ res[i].status = 200 /\ res[i].video \in db
        /\ Done(j) /\ res[j].status = 500 /\ CollaboratorRejected(j)

\* The grants of an access-control list.
Grants(acl) == {acl[k] : k \in 1..Len(acl)}

\* The list the claim describes for a team: read for any role, update and
\* delete for the team, and nothing else.
TeamAcl(team) ==
    {[action |-> "read", role |-> [kind |-> "any", id |-> ""]],
     [action |-> "update", role |-> [kind |-> "team", id |-> team]],
     [action |-> "delete", role |-> [kind |-> "team", id |-> team]]}

trim(t) == IF t = " " THEN "" ELSE t

\* A text field that is absent or empty once trimmed.
Blank(f) == ~f.has \/ trim(f.val) = ""

\* C16: a request whose title or description is empty after trimming (a
\* single space, say) never causes a put or a createDocument call, does not
\* reach the storage stages, and once parsed is answered 400.
C16_BlankTextRejected ==
    \A i \in Invocations :
        req[i].method = "POST" /\ (Blank(req[i].title) \/ Blank(req[i].description))
            => /\ NoCollaboratorCall(i)
               /\ pc[i] \notin {"readVideo", "putVideo", "readThumbnail",
                                "putThumbnail", "createDocument"}
               /\ Done(i) /\ Parsed(i) => res[i].status = 400

\* A file part that was sent with a payload of zero bytes.
EmptyPayload(f) == f.has /\ f.size = 0

\* C17: a request one of whose file parts is present with an empty payload
\* never causes a put or a createDocument call, and unless its body is
\* malformed or cut short it is answered 400.
C17_EmptyFileRejected ==
    \A i \in Invocations :
        req[i].method = "POST"
        /\ (EmptyPayload(req[i].videoFile) \/ EmptyPayload(req[i].thumbnailFile))
            => /\ NoCollaboratorCall(i)
               /\ Done(i) /\ res[i].details # ParseError => res[i].status = 400

\* The outcomes of the calls of a sequence, in order.
Errors(calls) == [k \in 1..Len(calls) |-> calls[k].error]

\* One of two sequences of outcomes continues the other.
Agree(a, b) ==
    \A k \in 1..(IF Len(a) < Len(b) THEN Len(a) ELSE Len(b)) : a[k] = b[k]

\* A read of a staged file of the invocation rejected.
ReadFailed(i) ==
    /\ ~CollaboratorRejected(i)
    /\ \E k \in 1..Len(log[i]) :
          log[i][k].stage \in {"video", "thumbnail"} /\ ~log[i][k].ok

\* Two invocations whose parses and file reads succeeded and whose
\* collaborators answered alike, as far as each was called.
SameOutcomes(i, j) ==
    /\ Parsed(i) /\ Parsed(j)
    /\ ~ReadFailed(i) /\ ~ReadFailed(j)
    /\ Agree(Errors(puts[i]), Errors(puts[j]))
    /\ Agree(Errors(creates[i]), Errors(creates[j]))

\* What a response says, the document's id and the suffix the blob store
\* gave each URL left out: status, error content, and the record.
Result(r) ==
    [status |-> r.status, error |-> r.error, message |-> r.message,
     details |-> r.details,
     record |-> [r.video.data EXCEPT !.videoUrl = @.pathname,
                                     !.thumbnailUrl = @.pathname],
     permissions |-> r.video.permissions,
     videoBlobUrl |-> r.videoBlobUrl.pathname,
     thumbnailBlobUrl |-> r.thumbnailBlobUrl.pathname]

\* C18: a failing unlink of a staged file does not change the result: of two
\* invocations serving the same request with the same collaborator outcomes,
\* one with a failed unlink and one without, both get the same response
\* (status, error content and record).
C18_UnlinkFailureKeepsResult ==
    \A i, j \in Invocations :
        (/\ Done(i) /\ Done(j) /\ req[i] = req[j]
         /\ warned[i] > 0 /\ warned[j] = 0
         /\ SameOutcomes(i, j))
            => Result(res[i]) = Result(res[j])

\* The same request served twice with a record created each time, one of the
\* two invocations having failed to unlink a staged file.
C18_Witness ==
    \E i, j \in Invocations :
        /\ Done(i) /\ Done(j) /\ req[i] = req[j]
        /\ warned[i] > 0 /\ warned[j] = 0
        /\ SameOutcomes(i, j)
        /\ res[i].status = 200

\* The requirements of line 72 that request r fails.
FailedRequirements(r) ==
    {f \in {"title", "description", "teamId"} : Falsy(r[f])}
    \cup (IF isNaN(parseInt(r.duration)) THEN {"duration"} ELSE {})
    \cup {f \in {"videoFile", "thumbnailFile"} : ~r[f].has}

\* The error content of a response.
ErrorContent(r) == [error |-> r.error, message |-> r.message, details |-> r.details]

\* C19: the response to a validation failure tells which requirement failed:
\* two requests rejected for different requirements (a missing title, a
\* duration that is no number, a missing thumbnail) get responses with
\* different error content.
C19_ValidationErrorNamesField ==
    \A i, j \in Invocations :
        (/\ Done(i) /\ res[i].status = 400
         /\ Done(j) /\ res[j].status = 400
         /\ FailedRequirements(req[i]) # FailedRequirements(req[j]))
            => ErrorContent(res[i]) # ErrorContent(res[j])

\* The parse of the invocation failed.
ParseFailed(i) == log[i] # <<>> /\ log[i][1] = Stage("parse", FALSE)

\* C20: when the parse fails, the response is an error, no put and no
\* createDocument call is made, and none of the files the parse had staged is
\* left in the staging directory when the handler has returned.
C20_ParseFailureCleansUp ==
    \A i \in Invocations :
        Done(i) /\ ParseFailed(i)
            => /\ res[i].status >= 400
               /\ NoCollaboratorCall(i)
               /\ StagedFiles(i) = {}

\* C21: for a well-formed request the body of the put of the video is the
\* content of the request's videoFile part and the body of the put of the
\* thumbnail is the content of its thumbnailFile part, also when both parts
\* declare the same filename.
C21_PutBodiesAreTheParts ==
    \A i \in Invocations :
        WellFormed(req[i])
            => /\ Len(puts[i]) >= 1 => puts[i][1].body = Bytes(i, "videoFile")
               /\ Len(puts[i]) >= 2 => puts[i][2].body = Bytes(i, "thumbnailFile")

\* C22: a request whose method is not POST is answered 405 at once and
\* nothing else is done for it: its body is never parsed, nothing is staged,
\* no put and no createDocument call is made.
C22_NonPostOnly405 ==
    \A i \in Invocations :
        pc[i] # "idle" /\ req[i].method # "POST"
            => /\ Done(i)
               /\ res[i] = MethodNotAllowed /\ res[i].status = 405
               /\ sent[i] = 1
               /\ log[i] = <<Stage("respond", TRUE)>>
               /\ StagedFiles(i) = {} /\ destroyed[i] = {}
               /\ NoCollaboratorCall(i)
               /\ loc[i] = NoLocals

\* A GET was answered while the POST of the other invocation had its files
\* staged.
C22_Witness ==
    \E i, j \in Invocations :
        /\ Done(i) /\ req[i].method = "GET" /\ res[i].status = 405
        /\ req[j].method = "POST" /\ StagedFiles(j) # {}

\* C23: a POST without a teamId, whatever else it carries, never causes a put
\* or a createDocument call; once parsed it is answered with the 400 and none
\* of its staged files is left; and no record of the collection grants
\* anything to a team without an identifier.
C23_MissingTeamIdRejected ==
    /\ \A i \in Invocations :
        req[i].method = "POST" /\ Falsy(req[i].teamId)
            => /\ NoCollaboratorCall(i)
               /\ pc[i] \notin {"readVideo", "putVideo", "readThumbnail",
                                "putThumbnail", "unlinkVideo", "unlinkThumbnail",
                                "createDocument"}
               /\ Done(i) /\ Parsed(i)
                     => res[i] = BadRequest /\ StagedFiles(i) = {}
    /\ \A d \in db :
        \A g \in Grants(d.permissions) : g.role.kind = "team" => g.role.id # ""

\* A request with everything but the teamId was rejected after both of its
\* files had been staged, while the other invocation's record was created.
C23_Witness ==
    \E i, j \in Invocations :
        /\ Done(i) /\ req[i] = [Std EXCEPT !.teamId = NoField]
        /\ res[i].status = 400 /\ StagedFiles(i) = {}
        /\ db # {} /\ res[j].status = 200

\* C24: the two staged files are unlinked after both puts resolved and before
\* createDocument is called: while they are being unlinked no createDocument
\* call has been made, and from the createDocument call on, whether it
\* resolves or rejects, none of the request's files is staged unless an
\* unlink failed.
C24_UnlinkBeforeCreate ==
    \A i \in Invocations :
        /\ pc[i] \in {"unlinkVideo", "unlinkThumbnail"}
              => /\ Len(puts[i]) = 2
                 /\ puts[i][1].error = "" /\ puts[i][2].error = ""
                 /\ creates[i] = <<>>
        /\ (pc[i] = "createDocument" \/ creates[i] # <<>>) /\ warned[i] = 0
              => StagedFiles(i) = {}

\* createDocument rejected after both unlinks had succeeded, and nothing of
\* the request is staged.
C24_Witness ==
    \E i \in Invocations :
        /\ Done(i) /\ CreateFailedAfterPuts(i) /\ warned[i] = 0
        /\ StagedFiles(i) = {} /\ res[i].status = 500

\* What Home shows (HomePage.jsx lines 58 and 66).
HomeErrorPanel == home.mounted /\ home.error # Null
HomeEmptyMessage ==
    home.mounted /\ ~home.loading /\ home.error = Null /\ Len(home.videos) = 0

\* C25: when its listDocuments call has failed, Home has loading false and
\* an error message, so that it shows the error panel and not the message of
\* the empty catalogue.
C25_HomeShowsErrorOnFailure ==
    home.mounted /\ home.rejected
        => /\ ~home.loading
           /\ home.error # Null
           /\ HomeErrorPanel
           /\ ~HomeEmptyMessage

\* C26: whenever App's currentPage is 'home' its selectedVideoId is null,
\* whenever it is 'detail' selectedVideoId is the id last passed to
\* navigateToVideoDetail (and the one VideoDetailPage is given), and no step
\* that ends on 'upload' changes selectedVideoId.
C26_SelectionFollowsNavigation ==
    /\ [](/\ currentPage \in {"home", "upload", "detail"}
          /\ currentPage = "home" => selectedVideoId = Null
          /\ currentPage = "detail"
                => /\ selectedVideoId = lastVideoId
                   /\ detail.mounted /\ detail.videoId = selectedVideoId)
    /\ [][currentPage' = "upload" => selectedVideoId' = selectedVideoId]_vars

\* The Upload page reached from the detail page of v1, which is still
\* selected.
C26_Witness ==
    /\ currentPage = "upload"
    /\ selectedVideoId = "v1" /\ lastVideoId = "v1"

\* The getDocument call of the page shown has not settled.
DetailFetching == \E c \in pending : c.op = "getDocument" /\ c.live

\* C27: VideoDetailPage given no videoId makes no getDocument call and has
\* error "No video ID provided." and loading false; given a videoId it makes
\* one call, and once that has settled loading is false and exactly one of
\* video and error is set: the document of that id when the call resolved,
\* the message of the failure when it rejected.
C27_DetailFetchSettles ==
    detail.mounted
        => /\ NoVideoId(detail.videoId)
                 => /\ detail.fetches = 0 /\ ~DetailFetching
                    /\ detail.error = NoVideoIdProvided
                    /\ ~detail.loading
                    /\ detail.video = NullDocument
           /\ ~NoVideoId(detail.videoId)
                 => /\ detail.fetches = 1
                    /\ detail.loading <=> DetailFetching
                    /\ ~DetailFetching
                          => /\ (detail.video # NullDocument) # (detail.error # Null)
                             /\ detail.rejected
                                   => detail.error = FailedToLoadVideo
                             /\ ~detail.rejected
                                   => detail.video = Document(detail.videoId)

\* VideoDetailPage shown for a document that came without an $id, while the
\* call of an earlier visit, abandoned, has yet to settle.
C27_Witness ==
    /\ detail.mounted /\ NoVideoId(detail.videoId)
    /\ detail.error = NoVideoIdProvided
    /\ \E c \in pending : c.op = "getDocument" /\ ~c.live

====
